---- MODULE Spec2Model ----
(***************************************************************************)
(* A model of the JamMate effects controller (src/main2.py): the rotary    *)
(* knob (MetallicKnob), the device-connection lifecycle, the drum pattern  *)
(* matrix and the preset store of GuitarFXApp.                             *)
(*                                                                         *)
(* Knob values move in steps of 0.5 (sensitivity, line 91), so every knob  *)
(* quantity is held as an integer number of halves: a knob record's        *)
(* min_value, max_value and value are twice the Python numbers.            *)
(***************************************************************************)
EXTENDS Integers, Sequences, FiniteSets, TLC

VARIABLES
    knob,               \* the MetallicKnob under test, or NoKnob before __init__
    new_value,          \* the unclamped value last handed to the clamp (line 92 / the set_value argument)
    perm_knobs,         \* self.perm_knobs: Master / BPM / BL_Vol
    drum_pattern_array, \* module-level matrix, rows 0..8, columns 0..15
    DrumPatEnab,        \* self.DrumPatEnab
    serial_port,        \* self.serial_port: "None" or the opened port
    bt_connected,       \* self.bt_connected
    is_connecting,      \* self.is_connecting
    after_queue,        \* pending self.after(100, _attempt_connection) callbacks
    window_exists,      \* winfo_exists(): FALSE once destroy() ran
    status_message,     \* self.status_message
    emitted,            \* the send notifications made by the handler that ran last
    last_call,          \* the handler that ran last, with its inputs
    raised,             \* the exception that left the handler that ran last, or "None"
    counts,             \* ghost: connect calls, scheduled / begun / run discovery steps
    presets,            \* self.presets
    presets_file,       \* the content of presets.json
    bank_var, num_var,  \* the Bank and Num dropdown variables
    recalled,           \* what self.presets.get(preset_key) returned in the last recall
    saved,              \* ghost: per (bank, num), the snapshot handed to the last save
    grab,               \* the master knob the pressed pointer is on, or "None"
    drags,              \* ghost: drag samples taken by the master knobs
    config,             \* the content of config.json at startup
    all_effects,        \* self.all_effects: the catalog, a sequence of descriptors
    current_effect,     \* self.current_effect: <<>> for None, <<i>> otherwise
    effect_enables,     \* self.effect_enables: index -> value of its enable IntVar
    bypass_enabled      \* self.bypass_enabled

vars == <<knob, new_value, perm_knobs, drum_pattern_array, DrumPatEnab,
          serial_port, bt_connected, is_connecting, after_queue, window_exists,
          status_message, emitted, last_call, raised, counts,
          presets, presets_file, bank_var, num_var, recalled, saved, grab, drags,
          config, all_effects, current_effect, effect_enables, bypass_enabled>>

knobVars    == <<knob, new_value>>
drumVars    == <<drum_pattern_array, DrumPatEnab>>
connVars    == <<serial_port, bt_connected, is_connecting, after_queue, window_exists, counts>>
presetVars  == <<perm_knobs, presets, presets_file, bank_var, num_var, recalled, saved, grab, drags>>
catalogVars == <<config, all_effects, current_effect, effect_enables, bypass_enabled>>

----------------------------------------------------------------------------
(* Bounds of the model. *)

KnobBound      == 2   \* knob ranges are drawn from -KnobBound..KnobBound
PointerBound   == 3   \* pointer positions event.y are drawn from 0..PointerBound
MaxRow         == 1   \* in-range drum rows toggled: 0..MaxRow
MaxCol         == 0   \* in-range drum columns toggled: 0..MaxCol
MaxConnects    == 2   \* _connect is invoked at most this many times
NumBanks       == 2   \* banks offered to the Bank dropdown
NumNums        == 1   \* slots offered to the Num dropdown
MaxDrags       == 1   \* master-knob drag samples per run
DragBound      == 1   \* pointer positions of the master-knob drags: 0..DragBound
MaxTabs        == 2   \* short "tabs" lists of config.json have 0..MaxTabs entries
ExtraTabs      == 1   \* long "tabs" lists have MaxGeneric..MaxGeneric+ExtraTabs entries
MaxSelect      == 1   \* the effects 0..MaxSelect are selected and enabled / disabled

(* Program constants. *)
HalvesPerUnit  == 2     \* 1 / sensitivity
PATTERN_COLS   == 16
NumParts       == 9     \* len(DRUM_PARTS)
GridRows       == 3     \* len(parts_to_show): rows of self.drum_grid
DefaultLevel   == 127   \* level reported while no drum level knob exists

Min(a, b) == IF a < b THEN a ELSE b
Max(a, b) == IF a > b THEN a ELSE b

NoCall == [op |-> "none", args |-> <<>>]

(* What every handler leaves behind: its name and inputs, the exception that  *)
(* left it ("None" when it returned), and the send notifications it made.     *)
Ran(op, args, exc, notes) ==
    /\ last_call' = [op |-> op, args |-> args]
    /\ raised' = exc
    /\ emitted' = notes

----------------------------------------------------------------------------
(* MetallicKnob (lines 17-142).  last_y is <<>> for None, <<y>> otherwise.   *)

NoKnob == [built |-> FALSE, min_value |-> 0, max_value |-> 0, value |-> 0,
           last_y |-> <<>>, change_callback |-> FALSE]

\* int(x) of a value held in halves: truncation toward zero, in whole units.
IntOf(h) == IF h >= 0 THEN h \div HalvesPerUnit ELSE -((-h) \div HalvesPerUnit)

\* _value_to_angle divides by (max_value - min_value): it raises when they are equal.
_value_to_angle_raises(mn, mx) == mx - mn = 0

\* (a clamp that forgets the upper end)
Clamp_NoUpper(k, v) == Max(k.min_value, v)

\* max(self.min_value, min(self.max_value, v))
Clamp(k, v) == Max(k.min_value, Min(k.max_value, v))

\* A knob as __init__ leaves it (value = min_value, no drag in progress).
NewKnob(mn, mx) ==
    [built |-> TRUE, min_value |-> mn, max_value |-> mx, value |-> mn,
     last_y |-> <<>>, change_callback |-> FALSE]

\* new_value = self.value + dy * sensitivity, with dy = self.last_y - event.y
DragTarget(k, y) == k.value + (k.last_y[1] - y)

\* The knob after _on_drag(event) with event.y = y.
Dragged(k, y) ==
    IF k.last_y = <<>>
    THEN [k EXCEPT !.last_y = <<y>>]
    ELSE [k EXCEPT !.last_y = <<y>>, !.value = Clamp(k, DragTarget(k, y))]

\* The knob after set_value(v).
WithValue(k, v) == [k EXCEPT !.value = Clamp(k, v)]

KnobRange == (0 - KnobBound) .. KnobBound
PointerYs == 0 .. PointerBound
SetInputs == (HalvesPerUnit * (0 - KnobBound) - PointerBound) .. (HalvesPerUnit * KnobBound + PointerBound)

MetallicKnob_init(mn, mx) ==
    /\ ~knob.built
    /\ raised = "None"
    /\ IF _value_to_angle_raises(mn, mx)
       THEN /\ Ran("MetallicKnob.__init__", <<mn, mx>>, "ZeroDivisionError", <<>>)
            /\ UNCHANGED knobVars
       ELSE /\ knob' = NewKnob(HalvesPerUnit * mn, HalvesPerUnit * mx)
            /\ new_value' = HalvesPerUnit * mn
            /\ Ran("MetallicKnob.__init__", <<mn, mx>>, "None", <<>>)
    /\ UNCHANGED <<drumVars, connVars, presetVars, catalogVars, status_message>>

_start_drag(y) ==
    /\ knob.built
    /\ knob' = [knob EXCEPT !.last_y = <<y>>]
    /\ Ran("_start_drag", <<y>>, "None", <<>>)
    /\ UNCHANGED <<new_value, drumVars, connVars, presetVars, catalogVars, status_message>>

\* The callable a drag step invokes (lines 98-99) and the one a release
\* invokes (lines 103-104): both are self.change_callback, called without
\* arguments.
LiveChannel == "change_callback"
CommittedChannel == "change_callback"

_on_drag(y) ==
    /\ knob.built
    /\ knob' = Dragged(knob, y)
    /\ new_value' = IF knob.last_y = <<>> THEN new_value ELSE DragTarget(knob, y)
    /\ Ran("_on_drag", <<y>>, "None",
           IF knob.last_y # <<>> /\ knob.change_callback THEN <<LiveChannel>> ELSE <<>>)
    /\ UNCHANGED <<drumVars, connVars, presetVars, catalogVars, status_message>>

_on_release(y) ==
    /\ knob.built
    /\ Ran("_on_release", <<y>>, "None",
           IF knob.change_callback THEN <<CommittedChannel>> ELSE <<>>)
    /\ UNCHANGED <<knobVars, drumVars, connVars, presetVars, catalogVars, status_message>>

set_change_callback ==
    /\ knob.built
    /\ knob' = [knob EXCEPT !.change_callback = TRUE]
    /\ Ran("set_change_callback", <<>>, "None", <<>>)
    /\ UNCHANGED <<new_value, drumVars, connVars, presetVars, catalogVars, status_message>>

set_value(v) ==
    /\ knob.built
    /\ knob' = WithValue(knob, v)
    /\ new_value' = v
    /\ Ran("set_value", <<v>>, "None", <<>>)
    /\ UNCHANGED <<drumVars, connVars, presetVars, catalogVars, status_message>>

NextKnob ==
    \/ \E mn \in KnobRange, mx \in KnobRange : MetallicKnob_init(mn, mx)
    \/ \E y \in PointerYs : _start_drag(y)
    \/ \E y \in PointerYs : _on_drag(y)
    \/ \E y \in PointerYs : _on_release(y)
    \/ set_change_callback
    \/ \E v \in SetInputs : set_value(v)

----------------------------------------------------------------------------
(* Status line and the outbound sends of GuitarFXApp (lines 790-793, 867-885) *)

\* _update_status(message): the line is set only while the window exists.
_update_status(message) ==
    status_message' = IF window_exists THEN message ELSE status_message

\* int(self.drum_level_knob.get_value()) if the knob exists, else 127 (line 877)
DrumLevel == IF knob.built THEN IntOf(knob.value) ELSE DefaultLevel

SendFailedStatus == "Send Failed: Not connected"
PacketStatus(packet_name) == "Sent " \o packet_name \o " packet"
DrumDataStatus(trigger) == "Drum send: " \o trigger \o " - Level: " \o ToString(DrumLevel)
DrmpStatus == "DRMP pattern sent"

\* Whether a send is let through: _send_17_byte_packet tests bt_connected,
\* _send_drum_data and _send_drmp_pattern test nothing.
PacketAccepted == bt_connected
DrumSendAccepted == TRUE

\* The status line and the notifications of _send_drum_data(trigger).
SendDrumDataStatus(trigger) ==
    IF DrumSendAccepted THEN DrumDataStatus(trigger) ELSE SendFailedStatus
SendDrumDataNotes == IF DrumSendAccepted THEN <<"drum_data">> ELSE <<>>

\* The status line and the notifications of _send_drmp_pattern().
SendDrmpStatus == IF DrumSendAccepted THEN DrmpStatus ELSE SendFailedStatus
SendDrmpNotes == IF DrumSendAccepted THEN <<"drmp_pattern">> ELSE <<>>

PacketNames == {"DRUM", "KNOB"}

_send_17_byte_packet(packet_name) ==
    /\ window_exists
    /\ IF ~PacketAccepted
       THEN /\ _update_status(SendFailedStatus)
            /\ Ran("_send_17_byte_packet", <<packet_name>>, "None", <<>>)
       ELSE /\ _update_status(PacketStatus(packet_name))
            /\ Ran("_send_17_byte_packet", <<packet_name>>, "None", <<"packet">>)
    /\ UNCHANGED <<knobVars, drumVars, connVars, presetVars, catalogVars>>

----------------------------------------------------------------------------
(* Drum pattern matrix and drum dropdowns (lines 12-14, 634-636, 671-682, 883-885) *)

Rows == 0 .. (NumParts - 1)
Cols == 0 .. (PATTERN_COLS - 1)

\* Python list indexing: i in -n..-1 counts from the end, i outside -n..n-1 raises IndexError.
InList(i, n) == (0 - n) <= i /\ i < n
PyIndex(i, n) == IF i < 0 THEN i + n ELSE i

\* (a toggle that switches the cell on instead of flipping it)
Flipped_on(m, row, col) ==
    [m EXCEPT ![PyIndex(row, NumParts)][PyIndex(col, PATTERN_COLS)] = 1]

\* drum_pattern_array[row][col] = 1 - drum_pattern_array[row][col]
Flipped(m, row, col) ==
    [m EXCEPT ![PyIndex(row, NumParts)][PyIndex(col, PATTERN_COLS)] = 1 - @]

\* How _toggle_drum_beat(row, col) ends:
\*   "skip"       the guard of line 672 is false, nothing happens
\*   "guard_err"  the guard itself raises (drum_pattern_array[row] out of range)
\*   "flip_err"   line 673 raises (column out of range), no cell changes
\*   "grid_err"   the cell is flipped, then self.drum_grid[row] raises (line 676)
\*   "done"       the cell is flipped, the flag set and the pattern sent
ToggleOutcome(row, col) ==
    IF ~(row < NumParts) THEN "skip"
    ELSE IF ~InList(row, NumParts) THEN "guard_err"
    ELSE IF ~(col < PATTERN_COLS) THEN "skip"
    ELSE IF ~InList(col, PATTERN_COLS) THEN "flip_err"
    ELSE IF row < GridRows /\ ~InList(row, GridRows) THEN "grid_err"
    ELSE "done"

_toggle_drum_beat(row, col) ==
    /\ window_exists
    /\ LET out == ToggleOutcome(row, col) IN
       /\ drum_pattern_array' = IF out \in {"grid_err", "done"}
                                THEN Flipped(drum_pattern_array, row, col)
                                ELSE drum_pattern_array
       /\ DrumPatEnab' = IF out = "done" THEN 1 ELSE DrumPatEnab
       /\ IF out = "done"
          THEN /\ _update_status(SendDrmpStatus)
               /\ Ran("_toggle_drum_beat", <<row, col>>, "None", SendDrmpNotes)
          ELSE /\ UNCHANGED status_message
               /\ Ran("_toggle_drum_beat", <<row, col>>,
                      IF out = "skip" THEN "None" ELSE "IndexError", <<>>)
    /\ UNCHANGED <<knobVars, connVars, presetVars, catalogVars>>

\* (a style change that leaves the flag alone)
_handle_drum_style_change_keeps_flag(trigger) ==
    /\ window_exists
    /\ _update_status(SendDrumDataStatus(trigger))
    /\ Ran("_handle_drum_style_change", <<trigger>>, "None", SendDrumDataNotes)
    /\ UNCHANGED <<knobVars, drum_pattern_array, DrumPatEnab, connVars, presetVars, catalogVars>>

\* A selection in the Style or the Fill dropdown: _handle_drum_style_change(trigger).
\* (No handler reads the dropdown variables, so they are not part of the state.)
_handle_drum_style_change(trigger) ==
    /\ window_exists
    /\ DrumPatEnab' = 0
    /\ _update_status(SendDrumDataStatus(trigger))
    /\ Ran("_handle_drum_style_change", <<trigger>>, "None", SendDrumDataNotes)
    /\ UNCHANGED <<knobVars, drum_pattern_array, connVars, presetVars, catalogVars>>

\* A selection in the Number dropdown, or a change of the drum level knob:
\* _send_drum_data(trigger) is called directly.
_send_drum_data(trigger) ==
    /\ window_exists
    /\ _update_status(SendDrumDataStatus(trigger))
    /\ Ran("_send_drum_data", <<trigger>>, "None", SendDrumDataNotes)
    /\ UNCHANGED <<knobVars, drum_pattern_array, DrumPatEnab, connVars, presetVars, catalogVars>>

\* Inputs of _toggle_drum_beat: the cells 0..MaxRow x 0..MaxCol, and indices
\* outside the matrix in one coordinate (or both), on either side.
OutRows == {0 - (NumParts + 1), 0 - (GridRows + 1), 0 - 1, NumParts}
OutCols == {0 - (PATTERN_COLS + 1), 0 - 1, PATTERN_COLS}
ToggleInputs ==
    ((0 .. MaxRow) \X (0 .. MaxCol))
        \cup (OutRows \X {0}) \cup ({0} \X OutCols) \cup {<<0 - 1, 0 - 1>>, <<NumParts, PATTERN_COLS>>}

----------------------------------------------------------------------------
(* Connection lifecycle (lines 796-864, 962-965) *)

DEVICE_NAME == "JamMate_BL"

\* The four states of the lifecycle, read off the flags and the serial handle.
ConnState ==
    IF is_connecting /\ bt_connected THEN "Invalid"
    ELSE IF is_connecting THEN "Connecting"
    ELSE IF bt_connected THEN (IF serial_port # "None" THEN "Connected" ELSE "DemoMode")
    ELSE "Disconnected"

\* (a _connect that schedules a discovery step on every call)
_connect_always ==
    /\ is_connecting' = TRUE
    /\ after_queue' = after_queue + 1
    /\ UNCHANGED <<serial_port, bt_connected, window_exists, status_message>>
    /\ counts' = [counts EXCEPT
                    !.connect_calls = @ + 1,
                    !.scheduled = @ + 1,
                    !.begun = @ + (IF ConnState = "Disconnected" THEN 1 ELSE 0)]

\* (a _connect that sets is_connecting but schedules no discovery step)
_connect_unscheduled ==
    /\ is_connecting' = TRUE
    /\ UNCHANGED <<serial_port, bt_connected, window_exists, status_message, after_queue>>
    /\ counts' = [counts EXCEPT !.connect_calls = @ + 1]

\* _connect(): returns at once while is_connecting, else schedules one discovery step.
_connect ==
    /\ IF is_connecting
       THEN UNCHANGED <<is_connecting, after_queue>>
       ELSE /\ is_connecting' = TRUE
            /\ after_queue' = after_queue + 1
    /\ UNCHANGED <<serial_port, bt_connected, window_exists, status_message>>
    /\ counts' = [counts EXCEPT
                    !.connect_calls = @ + 1,
                    !.scheduled = @ + (after_queue' - after_queue),
                    !.begun = @ + (IF ConnState = "Disconnected" /\ ConnState' = "Connecting"
                                   THEN 1 ELSE 0)]

\* (a _disconnect that drops the handle but leaves bt_connected set)
_disconnect_keeps_flag ==
    /\ serial_port' = "None"
    /\ is_connecting' = FALSE
    /\ _update_status("Disconnected")
    /\ UNCHANGED bt_connected

\* _disconnect(): close() may raise, which is swallowed; the handle is dropped either way.
_disconnect ==
    /\ serial_port' = "None"
    /\ bt_connected' = FALSE
    /\ is_connecting' = FALSE
    /\ _update_status("Disconnected")

\* (a _simulate_connection that forgets to clear is_connecting)
_simulate_connection_still_connecting ==
    /\ bt_connected' = TRUE
    /\ _update_status("Demo Mode - UI Functional")
    /\ UNCHANGED <<serial_port, is_connecting>>

\* _simulate_connection()
_simulate_connection ==
    /\ bt_connected' = TRUE
    /\ is_connecting' = FALSE
    /\ _update_status("Demo Mode - UI Functional")
    /\ UNCHANGED serial_port

\* (a try block that catches nothing)
AttemptResult_NoCatch(find, open) ==
    IF find = "raises" THEN "raise"
    ELSE IF find = "none" THEN "demo"
    ELSE IF open = "ok" THEN "connected" ELSE "raise"

\* How _attempt_connection ends, given what _find_port did ("raises", "none",
\* "port") and what serial.Serial did ("ok", "raises"): the try block catches
\* every Exception and falls back to _simulate_connection.
AttemptResult(find, open) ==
    IF find = "port" /\ open = "ok" THEN "connected" ELSE "demo"

FindOutcomes == {"raises", "none", "port"}
OpenOutcomes == {"ok", "raises"}

\* (a toggle that disconnects while Connecting too, the scheduled step left pending)
_toggle_connection_cancels ==
    /\ window_exists
    /\ IF bt_connected \/ is_connecting
       THEN /\ _disconnect
            /\ UNCHANGED <<after_queue, window_exists, counts>>
       ELSE /\ counts.connect_calls < MaxConnects
            /\ _connect
    /\ Ran("_toggle_connection", <<>>, "None", <<>>)
    /\ UNCHANGED <<knobVars, catalogVars, drumVars, presetVars>>

_toggle_connection ==
    /\ window_exists
    /\ IF bt_connected
       THEN /\ _disconnect
            /\ UNCHANGED <<after_queue, window_exists, counts>>
       ELSE /\ counts.connect_calls < MaxConnects
            /\ _connect
    /\ Ran("_toggle_connection", <<>>, "None", <<>>)
    /\ UNCHANGED <<knobVars, drumVars, presetVars, catalogVars>>

\* The callback scheduled by self.after(100, self._attempt_connection).  An
\* exception that left the try block would leave the flags as they were.
_attempt_connection(find, open) ==
    /\ window_exists
    /\ after_queue > 0
    /\ after_queue' = after_queue - 1
    /\ counts' = [counts EXCEPT !.ran = @ + 1]
    /\ LET res == AttemptResult(find, open) IN
       /\ CASE res = "connected" ->
                 /\ serial_port' = "port"
                 /\ bt_connected' = TRUE
                 /\ is_connecting' = FALSE
                 /\ _update_status("Connected to " \o DEVICE_NAME)
            [] res = "demo" -> _simulate_connection
            [] OTHER -> UNCHANGED <<serial_port, bt_connected, is_connecting, status_message>>
       /\ Ran("_attempt_connection", <<find, open>>,
              IF res \in {"connected", "demo"} THEN "None" ELSE "Exception", <<>>)
    /\ UNCHANGED <<window_exists, knobVars, drumVars, presetVars, catalogVars>>

\* _on_close(): _save_state, _disconnect, destroy.  destroy() deletes the
\* callbacks registered with after(), so none of them runs afterwards.
_on_close ==
    /\ window_exists
    /\ _disconnect
    /\ window_exists' = FALSE
    /\ after_queue' = 0
    /\ UNCHANGED counts
    /\ Ran("_on_close", <<>>, "None", <<>>)
    /\ UNCHANGED <<knobVars, drumVars, presetVars, catalogVars>>

----------------------------------------------------------------------------
(* The session: connection lifecycle, sends and drum sequencer *)

InitKnob ==
    /\ knob = NoKnob
    /\ new_value = 0

InitDrum ==
    /\ drum_pattern_array = [r \in Rows |-> [c \in Cols |-> 0]]
    /\ DrumPatEnab = 0

InitConn ==
    /\ serial_port = "None"
    /\ bt_connected = FALSE
    /\ is_connecting = FALSE
    /\ after_queue = 0
    /\ window_exists = TRUE
    /\ counts = [connect_calls |-> 0, scheduled |-> 0, begun |-> 0, ran |-> 0]

InitHandler ==
    /\ status_message = "Ready"
    /\ emitted = <<>>
    /\ last_call = NoCall
    /\ raised = "None"

----------------------------------------------------------------------------
(* Presets (lines 361-375, 397-422, 888-944).                               *)
(* A JSON value is [type, items]: a dict's items map its keys to values; an  *)
(* optional value is <<>> for None (absent) and <<v>> otherwise.             *)

PRESETS_FILE == "presets.json"
bank_items == <<"Clean", "Crunch", "Overdrive", "Distortion", "Modulated", "Custom1", "Custom2">>
num_items  == <<"1", "2", "3", "4", "5">>
labels     == {"Master", "BPM", "BL_Vol"}

Banks == {bank_items[i] : i \in 1 .. NumBanks}
Nums  == {num_items[i] : i \in 1 .. NumNums}

NoItems == [k \in {} |-> 0]
PyDict(items) == [type |-> "dict", items |-> items]
PyList == [type |-> "list", items |-> NoItems]

\* d.get(key, default) on the items of a dict
Get(items, key, default) == IF key \in DOMAIN items THEN items[key] ELSE default

\* default_val and max_val of the master knobs (lines 365-366), in whole units
default_val(label) == IF label = "BPM" THEN 127 ELSE 50
max_val(label)     == IF label = "BPM" THEN 255 ELSE 100

\* the fallbacks of perm.get(label, ...) in _apply_preset (lines 923-927)
apply_default(label) == IF label = "BPM" THEN 127 ELSE 50

\* preset_key = f"{bank}_{num}"
PresetKey(bank, num) == bank \o "_" \o num

\* _collect_current_state()
_collect_current_state ==
    [perm_knobs |-> [l \in labels |-> IntOf(perm_knobs[l].value)]]

\* The master knobs after _apply_preset(preset): the defaults of lines 923-927
\* stand in for entries the preset lacks.
_apply_preset(preset) ==
    LET perm == Get(preset, "perm_knobs", NoItems) IN
    [l \in labels |->
        WithValue(perm_knobs[l],
                  HalvesPerUnit * Get(perm, l, apply_default(l)))]

\* _load_presets(): what self.presets is after startup, from the file's state.
EmptyStore == PyDict([k \in {"last_used"} |-> "None"])
_load_presets(file) ==
    IF file.kind = "json" THEN file.value ELSE EmptyStore

\* _save_presets(): the file after the write; an exception is printed and swallowed.
_save_presets(store, file, write) ==
    IF write = "ok" THEN [kind |-> "json", value |-> store] ELSE file

\* if preset: -- None and an empty dict are both false
Truthy(found) == found # <<>> /\ DOMAIN found[1] # {}

\* self.presets.get(preset_key, None)
Lookup(store, key) ==
    IF key \in DOMAIN store.items THEN <<store.items[key]>> ELSE <<>>

\* self.presets[preset_key] = preset_data ; self.presets["last_used"] = preset_key
Stored(store, key, data) ==
    PyDict([k \in DOMAIN store.items \cup {key, "last_used"} |->
              IF k = key THEN data
              ELSE IF k = "last_used" THEN key
              ELSE store.items[k]])

\* _on_preset_changed(), run by a Bank or Num selection after the variable changed.
_on_preset_changed(bank, num) ==
    /\ window_exists
    /\ bank_var' = bank
    /\ num_var' = num
    /\ IF presets.type # "dict"
       THEN /\ Ran("_on_preset_changed", <<bank, num>>, "AttributeError", <<>>)
            /\ UNCHANGED <<perm_knobs, recalled, status_message>>
       ELSE LET preset == Lookup(presets, PresetKey(bank, num)) IN
            /\ recalled' = preset
            /\ IF Truthy(preset)
               THEN /\ perm_knobs' = _apply_preset(preset[1])
                    /\ _update_status("Loaded preset: " \o PresetKey(bank, num))
               ELSE /\ UNCHANGED perm_knobs
                    /\ _update_status("No preset found for: " \o PresetKey(bank, num))
            /\ Ran("_on_preset_changed", <<bank, num>>, "None", <<>>)
    /\ UNCHANGED <<presets, presets_file, saved, grab, drags, knobVars, drumVars, connVars, catalogVars>>

\* _on_update_preset(); write is what the file write does ("ok" or "fails").
_on_update_preset(write) ==
    /\ window_exists
    /\ saved' = [saved EXCEPT ![<<bank_var, num_var>>] = <<_collect_current_state>>]
    /\ IF presets.type # "dict"
       THEN /\ Ran("_on_update_preset", <<write>>, "TypeError", <<>>)
            /\ UNCHANGED <<presets, presets_file, status_message>>
       ELSE /\ presets' = Stored(presets, PresetKey(bank_var, num_var), _collect_current_state)
            /\ presets_file' = _save_presets(presets', presets_file, write)
            /\ _update_status("Preset " \o PresetKey(bank_var, num_var) \o " updated")
            /\ Ran("_on_update_preset", <<write>>, "None", <<>>)
    /\ UNCHANGED <<perm_knobs, bank_var, num_var, recalled, grab, drags, knobVars, drumVars, connVars, catalogVars>>

\* A press on a master knob: _start_drag of that knob.  The pointer stays with
\* the knob it was pressed on until it is released.
perm_start_drag(label, y) ==
    /\ window_exists
    /\ grab = "None"
    /\ drags < MaxDrags
    /\ grab' = label
    /\ perm_knobs' = [perm_knobs EXCEPT ![label].last_y = <<y>>]
    /\ Ran("_start_drag", <<label, y>>, "None", <<>>)
    /\ UNCHANGED <<presets, presets_file, bank_var, num_var, recalled, saved, drags,
                   knobVars, drumVars, connVars, catalogVars, status_message>>

\* A pointer move with the button held: _on_drag of the knob that was pressed
\* (no change callback is set on a master knob).
perm_on_drag(y) ==
    /\ window_exists
    /\ grab # "None"
    /\ drags < MaxDrags
    /\ drags' = drags + 1
    /\ perm_knobs' = [perm_knobs EXCEPT ![grab] = Dragged(@, y)]
    /\ Ran("_on_drag", <<grab, y>>, "None", <<>>)
    /\ UNCHANGED <<presets, presets_file, bank_var, num_var, recalled, saved, grab,
                   knobVars, drumVars, connVars, catalogVars, status_message>>

\* The button is released: _on_release of the knob that was pressed.
perm_on_release ==
    /\ window_exists
    /\ grab # "None"
    /\ grab' = "None"
    /\ Ran("_on_release", <<grab>>, "None", <<>>)
    /\ UNCHANGED <<perm_knobs, presets, presets_file, bank_var, num_var, recalled, saved,
                   drags, knobVars, drumVars, connVars, catalogVars, status_message>>

----------------------------------------------------------------------------
(* Effect catalog (lines 280-324, 440-475, 516-539, 752-779).               *)
(* config.json is [kind, shape, tabs_kind, tabs]: kind is "absent",          *)
(* "garbage" (json.load raises) or "json"; shape is "dict" when the JSON     *)
(* value is an object; tabs_kind is "absent" when the object has no "tabs",  *)
(* "list" when it is a list, "other" when it is a value that cannot be       *)
(* sliced.  An entry of tabs is an object (rec) or some other JSON value; an *)
(* optional field is <<>> when the object lacks it.  Catalog indices are     *)
(* Python's: index i is all_effects[i + 1].                                  *)

MaxGeneric  == 16   \* the slice [:16]
NumDefaults == 16   \* range(16)

Descriptor(title, type, knobs, checkbox) ==
    [title |-> title, type |-> type, knobs |-> knobs, checkbox |-> checkbox]

\* The synthesized descriptors of lines 303-308.
default_effects ==
    [i \in 1 .. NumDefaults |->
        Descriptor("Effect " \o ToString(i), "effect", <<"Gain", "Tone", "Level">>, <<TRUE>>)]

\* The special modules of lines 310-322.
special_effects ==
    << Descriptor("Drum", "drum", <<"Level">>, <<TRUE>>),
       Descriptor("Metronome", "metronome", <<"Volume", "BPM">>, <<TRUE>>),
       Descriptor("Looper", "looper", <<"Mix", "Feedback">>, <<TRUE>>),
       Descriptor("Tuner", "tuner", <<"Sensitivity">>, <<TRUE>>),
       Descriptor("Setup", "setup", <<>>, <<FALSE>>) >>

\* Lines 293-296 raise TypeError on an entry that is not an object.
EntryRaises(e) == ~e.rec

\* effect_copy of lines 293-295: the entry, with 'type' set when it lacks one.
effect_copy(e) ==
    Descriptor(e.title, IF e.type = <<>> THEN "effect" ELSE e.type[1], e.knobs, e.checkbox)

\* Whether the try block of lines 286-299 is left before its loop: json.load
\* raises, cfg.get raises (cfg is no object), or the slice raises.
RaisesBeforeLoop(cfg) ==
    cfg.kind = "garbage" \/ (cfg.kind = "json" /\ (cfg.shape # "dict" \/ cfg.tabs_kind = "other"))

\* (a load that takes every entry of "tabs")
regular_effects_NoLimit(cfg) ==
    IF cfg.kind # "json" \/ RaisesBeforeLoop(cfg) \/ cfg.tabs_kind = "absent" THEN <<>>
    ELSE cfg.tabs

\* regular_effects = cfg.get("tabs", [])[:16], when line 289 is reached
regular_effects(cfg) ==
    IF cfg.kind # "json" \/ RaisesBeforeLoop(cfg) \/ cfg.tabs_kind = "absent" THEN <<>>
    ELSE SubSeq(cfg.tabs, 1, Min(MaxGeneric, Len(cfg.tabs)))

\* How many entries the loop of lines 292-296 appends before it ends or raises.
Appended(regular) ==
    LET bad == {i \in DOMAIN regular : EntryRaises(regular[i])} IN
    IF bad = {} THEN Len(regular)
    ELSE (CHOOSE i \in bad : \A j \in bad : i <= j) - 1

\* Whether the bare except of line 298 is entered.
LoadRaises(cfg) ==
    RaisesBeforeLoop(cfg) \/ Appended(regular_effects(cfg)) < Len(regular_effects(cfg))

\* _create_all_effects(): what was appended before the load ended or raised,
\* the 16 defaults if that is nothing, then the special modules.
_create_all_effects(cfg) ==
    LET regular == regular_effects(cfg)
        n == Appended(regular)
        all == IF n = 0 THEN <<>> ELSE [i \in 1 .. n |-> effect_copy(regular[i])]
    IN  (IF n = 0 THEN default_effects ELSE all) \o special_effects

\* params.get("checkbox", True) of line 464
OffersToggle(d) == IF d.checkbox = <<>> THEN TRUE ELSE d.checkbox[1]

\* self.effect_enables after _create_effect_buttons: IntVar(value=1) for every
\* descriptor that offers a toggle.
InitialEnables(all) ==
    [i \in {j \in 0 .. (Len(all) - 1) : OffersToggle(all[j + 1])} |-> 1]

\* _select_effect(effect_idx): the index is stored (line 517) before it is
\* used on self.all_effects (line 524).
_select_effect(effect_idx) ==
    /\ window_exists
    /\ current_effect' = <<effect_idx>>
    /\ Ran("_select_effect", <<effect_idx>>,
           IF InList(effect_idx, Len(all_effects)) THEN "None" ELSE "IndexError", <<>>)
    /\ UNCHANGED <<config, all_effects, effect_enables, bypass_enabled, status_message,
                   knobVars, drumVars, connVars, presetVars>>

\* A click on the Enable checkbox of effect_idx: the IntVar flips and its
\* trace runs _on_effect_enable_changed(effect_idx).
_on_effect_enable_changed(effect_idx) ==
    /\ window_exists
    /\ effect_idx \in DOMAIN effect_enables
    /\ effect_enables' = [effect_enables EXCEPT ![effect_idx] = 1 - @]
    /\ _update_status(all_effects[effect_idx + 1].title \o ": " \o
                      (IF effect_enables'[effect_idx] = 1 THEN "ENABLED" ELSE "DISABLED"))
    /\ Ran("_on_effect_enable_changed", <<effect_idx>>, "None", <<>>)
    /\ UNCHANGED <<config, all_effects, current_effect, bypass_enabled,
                   knobVars, drumVars, connVars, presetVars>>

\* _toggle_bypass()
_toggle_bypass ==
    /\ window_exists
    /\ bypass_enabled' = ~bypass_enabled
    /\ _update_status("Global bypass: " \o (IF bypass_enabled' THEN "BYPASSED" ELSE "ACTIVE"))
    /\ Ran("_toggle_bypass", <<>>, "None", <<>>)
    /\ UNCHANGED <<config, all_effects, current_effect, effect_enables,
                   knobVars, drumVars, connVars, presetVars>>

\* GuitarFXApp.__init__ for the catalog: lines 250, 259, 261, 438 and the
\* _select_effect(0) of lines 277-278.
InitCatalog(cfg) ==
    /\ config = cfg
    /\ all_effects = _create_all_effects(cfg)
    /\ current_effect = <<0>>
    /\ effect_enables = InitialEnables(_create_all_effects(cfg))
    /\ bypass_enabled = FALSE

NoConfig == [kind |-> "absent", shape |-> "none", tabs_kind |-> "absent", tabs |-> <<>>]

----------------------------------------------------------------------------
(* Initial states and specifications *)

\* The master knobs as _create_topbar builds them: range 0..max_val, set to default_val.
InitialPermKnobs ==
    [l \in labels |-> WithValue(NewKnob(0, HalvesPerUnit * max_val(l)),
                                  HalvesPerUnit * default_val(l))]

\* A store written by an earlier run: one preset under the first key.
EarlierStore ==
    PyDict([k \in {PresetKey(bank_items[1], num_items[1]), "last_used"} |->
              IF k = "last_used" THEN PresetKey(bank_items[1], num_items[1])
              ELSE [perm_knobs |-> [l \in labels |-> IF l = "BPM" THEN 90 ELSE 20]]])

\* presets.json at startup: absent, not JSON, or JSON (a store, or some other value).
StartupFiles ==
    {[kind |-> "missing"], [kind |-> "garbage"],
     [kind |-> "json", value |-> EmptyStore],
     [kind |-> "json", value |-> EarlierStore],
     [kind |-> "json", value |-> PyList]}

InitPreset(file) ==
    /\ perm_knobs = InitialPermKnobs
    /\ presets_file = file
    /\ presets = _load_presets(file)
    /\ bank_var = bank_items[1]
    /\ num_var = num_items[1]
    /\ recalled = <<>>
    /\ saved = [bn \in Banks \X Nums |->
                  IF _load_presets(file).type = "dict"
                  THEN Lookup(_load_presets(file), PresetKey(bn[1], bn[2]))
                  ELSE <<>>]
    /\ grab = "None"
    /\ drags = 0

\* The application after GuitarFXApp.__init__, no presets file present.
Init ==
    /\ InitKnob /\ InitDrum /\ InitConn /\ InitHandler
    /\ InitPreset([kind |-> "missing"])
    /\ InitCatalog(NoConfig)

\* Connection lifecycle and sends (the drum toggles kept to one cell).
Next ==
    \/ _toggle_connection
    \/ \E find \in FindOutcomes, open \in OpenOutcomes : _attempt_connection(find, open)
    \/ _on_close
    \/ \E name \in PacketNames : _send_17_byte_packet(name)
    \/ _toggle_drum_beat(0, 0)
    \/ \E trigger \in {"Style", "Fill"} : _handle_drum_style_change(trigger)
    \/ \E trigger \in {"Number", "Level"} : _send_drum_data(trigger)

Spec == Init /\ [][Next]_vars

\* The same, with the event loop running every callback that stays scheduled.
SpecLive ==
    /\ Init /\ [][Next]_vars
    /\ WF_vars(\E find \in FindOutcomes, open \in OpenOutcomes : _attempt_connection(find, open))

\* The drum sequencer on its own.
NextDrum ==
    \/ \E rc \in ToggleInputs : _toggle_drum_beat(rc[1], rc[2])
    \/ \E trigger \in {"Style", "Fill"} : _handle_drum_style_change(trigger)
    \/ \E trigger \in {"Number", "Level"} : _send_drum_data(trigger)

SpecDrum == Init /\ [][NextDrum]_vars

\* One knob on its own.
SpecKnob == Init /\ [][NextKnob]_vars

\* The entries a "tabs" list is made of: objects without 'type', with
\* 'type', with or without a 'checkbox' setting, and a value that is no object.
EntryKinds == {"plain", "effect", "setup", "setup_off", "off", "bad"}

Entry(i, kind) ==
    [rec      |-> kind # "bad",
     title    |-> "Tab " \o ToString(i),
     type     |-> IF kind \in {"setup", "setup_off"} THEN <<"setup">>
                  ELSE IF kind = "effect" THEN <<"effect">> ELSE <<>>,
     knobs    |-> <<"Drive">>,
     checkbox |-> IF kind \in {"setup_off", "off"} THEN <<FALSE>> ELSE <<>>]

JsonTabs(tabs) == [kind |-> "json", shape |-> "dict", tabs_kind |-> "list", tabs |-> tabs]

ShortTabs ==
    {<<>>} \cup UNION {{[i \in 1 .. n |-> Entry(i, f[i])] : f \in [1 .. n -> EntryKinds]} :
                          n \in 1 .. MaxTabs}

\* Lists of MaxGeneric entries and more, plain but for one entry.
LongTabs ==
    {[i \in 1 .. npk[1] |-> Entry(i, IF i = npk[2] THEN npk[3] ELSE "plain")] :
        npk \in (MaxGeneric .. (MaxGeneric + ExtraTabs))
                    \X {1, 3, MaxGeneric, MaxGeneric + 1} \X EntryKinds}

\* config.json at startup.
Configs ==
    {NoConfig,
     [kind |-> "garbage", shape |-> "none", tabs_kind |-> "absent", tabs |-> <<>>],
     [kind |-> "json", shape |-> "list", tabs_kind |-> "absent", tabs |-> <<>>],
     [kind |-> "json", shape |-> "dict", tabs_kind |-> "absent", tabs |-> <<>>],
     [kind |-> "json", shape |-> "dict", tabs_kind |-> "other", tabs |-> <<>>]}
        \cup {JsonTabs(tabs) : tabs \in ShortTabs \cup LongTabs}

\* The indices handed to _select_effect: the first effects, the last one, and
\* indices on either side of the catalog.
SelectInputs ==
    LET n == Len(all_effects) IN
    (0 .. MaxSelect) \cup {n - 1, n, 0 - 1, 0 - n, 0 - (n + 1)}

\* The effect catalog, from every startup state of config.json.
InitCatalogs ==
    /\ InitKnob /\ InitDrum /\ InitConn /\ InitHandler
    /\ InitPreset([kind |-> "missing"])
    /\ \E cfg \in Configs : InitCatalog(cfg)

NextCatalog ==
    \/ \E effect_idx \in SelectInputs : _select_effect(effect_idx)
    \/ \E effect_idx \in (0 .. MaxSelect) \cup {Len(all_effects) - 2} :
          _on_effect_enable_changed(effect_idx)
    \/ _toggle_bypass

SpecCatalog == InitCatalogs /\ [][NextCatalog]_vars

\* The preset bar and the master knobs, from every startup state of presets.json.
InitPresets ==
    /\ InitKnob /\ InitDrum /\ InitConn /\ InitHandler
    /\ \E file \in StartupFiles : InitPreset(file)
    /\ InitCatalog(NoConfig)

NextPresets ==
    \/ \E bank \in Banks : _on_preset_changed(bank, num_var)
    \/ \E num \in Nums : _on_preset_changed(bank_var, num)
    \/ \E write \in {"ok", "fails"} : _on_update_preset(write)
    \/ \E label \in labels, y \in 0 .. DragBound : perm_start_drag(label, y)
    \/ \E y \in 0 .. DragBound : perm_on_drag(y)
    \/ perm_on_release

SpecPresets == InitPresets /\ [][NextPresets]_vars

----------------------------------------------------------------------------
(* Properties of the knob *)

\* C1: a knob with min < max keeps min <= value <= max through every drag and
\* every set_value; a target above max leaves the value at max and one below
\* min leaves it at min (range 0..100 at 50: +200 gives 100, then -500 gives 0).
C1_ValueStaysInRange ==
    /\ (knob.built /\ knob.min_value < knob.max_value) =>
          /\ knob.min_value <= knob.value
          /\ knob.value <= knob.max_value
          /\ (new_value > knob.max_value => knob.value = knob.max_value)
          /\ (new_value < knob.min_value => knob.value = knob.min_value)
    /\ LET at50 == [WithValue(NewKnob(0, HalvesPerUnit * 100), HalvesPerUnit * 50)
                       EXCEPT !.last_y = <<500>>]
           up   == Dragged(at50, 500 - 200)
           down == Dragged(up, 300 + 500)
       IN  /\ up.value = HalvesPerUnit * 100
           /\ down.value = 0

\* C1 witness: a drag whose target lay above max has just run on a proper knob.
C1_Witness ==
    /\ knob.built /\ knob.min_value < knob.max_value
    /\ last_call.op = "_on_drag"
    /\ new_value > knob.max_value
    /\ knob.value = knob.max_value

----------------------------------------------------------------------------
(* Properties of the connection lifecycle and of the sends *)

SendHandlers ==
    {"_send_17_byte_packet", "_send_drum_data", "_handle_drum_style_change", "_toggle_drum_beat"}

\* C2: every send (generic packet, drum parameters, drum pattern) issued while
\* Disconnected or Connecting is rejected: the status line says it was not
\* sent and nothing is sent.  (No send handler changes the connection state,
\* so the state after the handler is the state it was issued in.)
C2_SendsGated ==
    (last_call.op \in SendHandlers /\ ConnState \in {"Disconnected", "Connecting"}) =>
        /\ status_message = SendFailedStatus
        /\ emitted = <<>>

\* C3: a discovery step that finds no device, or whose lookup or open raises,
\* ends in DemoMode (bt_connected, not is_connecting, no serial handle) with no
\* exception leaving it; the state becomes Connected only by a step that found
\* a device and opened the link.
C3_FallbackToDemo ==
    /\ [](last_call.op = "_attempt_connection" =>
            /\ raised = "None"
            /\ bt_connected /\ ~is_connecting
            /\ (last_call.args # <<"port", "ok">> =>
                   ConnState = "DemoMode" /\ serial_port = "None")
            /\ (last_call.args = <<"port", "ok">> => ConnState = "Connected"))
    /\ [][(ConnState # "Connected" /\ ConnState' = "Connected") =>
            /\ ConnState = "Connecting"
            /\ last_call'.op = "_attempt_connection"
            /\ last_call'.args = <<"port", "ok">>]_vars

\* C3 witness: the link failed to open and the session is in DemoMode.
C3_Witness ==
    /\ last_call.op = "_attempt_connection"
    /\ last_call.args = <<"port", "raises">>
    /\ ConnState = "DemoMode"

\* C4: a _connect() issued while Connecting changes no connection state and
\* schedules nothing; the discovery steps scheduled are as many as the calls
\* that moved Disconnected to Connecting, and no step runs more often than it
\* was scheduled.
C4_OneDiscoveryPerBegin ==
    /\ [](/\ counts.scheduled = counts.begun
          /\ counts.ran <= counts.scheduled
          /\ after_queue <= counts.scheduled - counts.ran)
    /\ [][(last_call'.op = "_toggle_connection" /\ ConnState = "Connecting") =>
            /\ UNCHANGED <<serial_port, bt_connected, is_connecting, after_queue>>
            /\ counts'.scheduled = counts.scheduled]_vars

\* C4 witness: _connect() was called while Connecting and scheduled nothing.
C4_Witness ==
    /\ last_call.op = "_toggle_connection"
    /\ ConnState = "Connecting"
    /\ counts.scheduled >= 1
    /\ counts.connect_calls > counts.scheduled

ListedTransitions ==
    {<<"Disconnected", "Connecting">>, <<"Connecting", "Connected">>,
     <<"Connecting", "DemoMode">>, <<"Connected", "Disconnected">>,
     <<"DemoMode", "Disconnected">>}

ClosedBy(op) == op \in {"_toggle_connection", "_on_close"}

\* C5 as stated: the connection state changes only by the five listed transitions.
C5_OnlyListedTransitions ==
    [][ConnState' # ConnState => <<ConnState, ConnState'>> \in ListedTransitions]_vars

\* C5 as amended: the state changes only by the five listed transitions or,
\* when the window is closed while Connecting, from Connecting to Disconnected;
\* Connecting is entered only from Disconnected, and a close from Connected or
\* DemoMode yields Disconnected.
C5_TransitionsWithClose ==
    [][/\ ConnState' # ConnState =>
            \/ <<ConnState, ConnState'>> \in ListedTransitions
            \/ /\ <<ConnState, ConnState'>> = <<"Connecting", "Disconnected">>
               /\ last_call'.op = "_on_close"
       /\ (ConnState' = "Connecting" /\ ConnState # "Connecting") => ConnState = "Disconnected"
       /\ (ConnState \in {"Connected", "DemoMode"} /\ ClosedBy(last_call'.op)) =>
              ConnState' = "Disconnected"]_vars

\* C5 witness: the window was closed while a discovery step was still pending.
C5_Witness ==
    /\ last_call.op = "_on_close"
    /\ counts.scheduled > counts.ran
    /\ ConnState = "Disconnected"

\* C6: exactly one of the four states is active: is_connecting and bt_connected
\* are never both true, and a serial handle is held only while bt_connected.
C6_OneStateActive ==
    /\ ConnState \in {"Disconnected", "Connecting", "Connected", "DemoMode"}
    /\ ~(is_connecting /\ bt_connected)
    /\ (serial_port # "None" => bt_connected)

\* C6 witness: a second connection attempt ended in DemoMode after a first had
\* held, and dropped, a serial handle.
C6_Witness ==
    /\ counts.ran >= 2
    /\ ConnState = "DemoMode"
    /\ last_call.op = "_attempt_connection"

----------------------------------------------------------------------------
(* Properties of the drum pattern matrix *)

InMatrix(row, col) == row \in Rows /\ col \in Cols

\* The number of pattern-send notifications among notes.
PatternSends(notes) == Cardinality({i \in DOMAIN notes : notes[i] = "drmp_pattern"})

\* C7: a toggle of an in-range cell flips that cell and no other, a second
\* toggle of the same cell restores the matrix, and each toggle makes exactly
\* one pattern-send notification.
C7_ToggleTwiceRestores ==
    [][\A row \in Rows, col \in Cols :
          (last_call'.op = "_toggle_drum_beat" /\ last_call'.args = <<row, col>>) =>
              /\ drum_pattern_array'[row][col] = 1 - drum_pattern_array[row][col]
              /\ \A r \in Rows, c \in Cols :
                    <<r, c>> # <<row, col>> =>
                        drum_pattern_array'[r][c] = drum_pattern_array[r][c]
              /\ Flipped(drum_pattern_array', row, col) = drum_pattern_array
              /\ PatternSends(emitted') = 1]_vars

\* C7 witness: cell (0, 0) was toggled on and off again while cell (1, 0) stayed on.
C7_Witness ==
    /\ last_call.op = "_toggle_drum_beat"
    /\ last_call.args = <<0, 0>>
    /\ drum_pattern_array[0][0] = 0
    /\ drum_pattern_array[1][0] = 1

\* C8: a toggle with row or col outside the matrix (negative indices included)
\* fails with an index error and flips no cell.
C8_OutOfRangeFails ==
    [][(/\ last_call'.op = "_toggle_drum_beat"
        /\ ~InMatrix(last_call'.args[1], last_call'.args[2])) =>
            /\ raised' = "IndexError"
            /\ drum_pattern_array' = drum_pattern_array]_vars

\* C9: a Style or Fill change leaves the matrix as it is, clears DrumPatEnab
\* whatever it was, and makes one parameter-change notification and no
\* pattern-send; DrumPatEnab is set only by a drum-cell toggle.
C9_StyleChangeClearsDirty ==
    [][/\ last_call'.op = "_handle_drum_style_change" =>
            /\ drum_pattern_array' = drum_pattern_array
            /\ DrumPatEnab' = 0
            /\ emitted' = <<"drum_data">>
       /\ (DrumPatEnab = 0 /\ DrumPatEnab' = 1) => last_call'.op = "_toggle_drum_beat"]_vars

\* C9 witness: after toggles left a cell on, a Fill change has cleared the flag.
C9_Witness ==
    /\ last_call.op = "_handle_drum_style_change"
    /\ last_call.args = <<"Fill">>
    /\ drum_pattern_array[0][0] = 1
    /\ DrumPatEnab = 0

----------------------------------------------------------------------------
(* Properties of the preset store *)

\* C10: a save under a key followed by a recall of that key (saves to other
\* keys in between or not) returns the snapshot that was saved, a later save
\* to the key replaces it, and a recall of a key never saved reports "not
\* found" and changes no knob.  Neither operation fails.
C10_SaveThenRecall ==
    [][/\ last_call'.op = "_on_update_preset" =>
            /\ raised' = "None"
            /\ presets'.type = "dict"
            /\ Lookup(presets', PresetKey(bank_var, num_var)) = <<_collect_current_state>>
       /\ last_call'.op = "_on_preset_changed" =>
            /\ raised' = "None"
            /\ recalled' = saved[<<bank_var', num_var'>>]
            /\ saved[<<bank_var', num_var'>>] = <<>> =>
                  /\ perm_knobs' = perm_knobs
                  /\ status_message' = "No preset found for: " \o PresetKey(bank_var', num_var')]_vars

\* The same round trip on the runs whose startup store is a keyed record.
SaveThenRecallOnStores ==
    [][presets.type = "dict" =>
         /\ last_call'.op = "_on_update_preset" =>
              /\ raised' = "None"
              /\ Lookup(presets', PresetKey(bank_var, num_var)) = <<_collect_current_state>>
         /\ last_call'.op = "_on_preset_changed" =>
              /\ raised' = "None"
              /\ recalled' = saved[<<bank_var', num_var'>>]
              /\ saved[<<bank_var', num_var'>>] = <<>> =>
                    /\ perm_knobs' = perm_knobs
                    /\ status_message' = "No preset found for: " \o PresetKey(bank_var', num_var')]_vars

\* self.presets["last_used"], None when the store has no such entry
LastUsed(store) == Get(store.items, "last_used", "None")

\* C11: on a store that is a keyed record, the last_used entry holds after
\* every save the key that was saved, and after every successful recall (one
\* that found and applied a preset) the key that was recalled.
C11_LastUsedTracksSaveAndLoad ==
    [][presets.type = "dict" =>
         /\ last_call'.op = "_on_update_preset" =>
              LastUsed(presets') = PresetKey(bank_var, num_var)
         /\ (last_call'.op = "_on_preset_changed" /\ Truthy(recalled')) =>
              LastUsed(presets') = PresetKey(bank_var', num_var')]_vars

\* What the code does keep: last_used is the key of the most recent save, and
\* no recall changes it.
LastUsedTracksSaves ==
    [][presets.type = "dict" =>
         /\ last_call'.op = "_on_update_preset" =>
              LastUsed(presets') = PresetKey(bank_var, num_var)
         /\ last_call'.op # "_on_update_preset" =>
              LastUsed(presets') = LastUsed(presets)]_vars

\* Whether presets.json holds a keyed record (a JSON object).
KeyedRecordFile(file) == file.kind = "json" /\ file.value.type = "dict"

\* C12: a startup from a presets file that is missing, unreadable or not a
\* keyed record (content that parses to some other JSON value included) gives
\* the empty store with last_used = None, and no later save or recall fails.
C12_StartupStoreUsable ==
    /\ (last_call = NoCall /\ ~KeyedRecordFile(presets_file)) => presets = EmptyStore
    /\ last_call.op \in {"_on_preset_changed", "_on_update_preset"} => raised = "None"

\* What the code does keep: a missing or unparsable file gives the empty store.
MissingOrGarbageGivesEmptyStore ==
    (last_call = NoCall /\ presets_file.kind # "json") => presets = EmptyStore

\* C13: every save returns with the whole store written: the file holds the
\* in-memory store, so that a restart (_load_presets of that file) followed by
\* a recall of the key finds the snapshot just saved.
C13_SaveWritesWholeStore ==
    [][last_call'.op = "_on_update_preset" =>
         /\ raised' = "None"
         /\ presets_file' = [kind |-> "json", value |-> presets']
         /\ Lookup(_load_presets(presets_file'), PresetKey(bank_var, num_var))
               = <<_collect_current_state>>]_vars

\* The same on a keyed-record store, for the saves whose file write went through.
SaveWritesWholeStoreWhenWritten ==
    [][(/\ last_call'.op = "_on_update_preset"
        /\ presets.type = "dict"
        /\ last_call'.args = <<"ok">>) =>
         /\ raised' = "None"
         /\ presets_file' = [kind |-> "json", value |-> presets']
         /\ Lookup(_load_presets(presets_file'), PresetKey(bank_var, num_var))
               = <<_collect_current_state>>]_vars

----------------------------------------------------------------------------
(* Properties of the effect catalog *)

SpecialKinds == <<"drum", "metronome", "looper", "tuner", "setup">>

\* The catalog is the 16 synthesized descriptors followed by the five specials.
IsDefaultCatalog(all) ==
    /\ Len(all) = 21
    /\ \A i \in 1 .. 16 :
          /\ all[i].title = "Effect " \o ToString(i)
          /\ all[i].type = "effect"
          /\ all[i].knobs = <<"Gain", "Tone", "Level">>
    /\ \A i \in 1 .. 5 : all[16 + i].type = SpecialKinds[i]

\* C14: the catalog is the 16 synthesized descriptors ('Effect 1'..'Effect 16',
\* knobs Gain/Tone/Level) followed by the 5 specials whenever config.json is
\* absent, loading it raises at any point, or it yields no entry.
C14_FallbackOnAnyFailure ==
    (\/ config.kind = "absent"
     \/ LoadRaises(config)
     \/ Len(regular_effects(config)) = 0) => IsDefaultCatalog(all_effects)

\* What the code does keep: the fallback is taken whenever nothing was
\* appended before the load ended or raised.
FallbackWhenNothingLoaded ==
    Appended(regular_effects(config)) = 0 => IsDefaultCatalog(all_effects)

C16_SetupNeverOffersToggle ==
    \A i \in 0 .. (Len(all_effects) - 1) :
        /\ all_effects[i + 1].type = "setup" => i \notin DOMAIN effect_enables
        /\ (all_effects[i + 1].type # "setup" /\ all_effects[i + 1].checkbox = <<>>) =>
              /\ i \in DOMAIN effect_enables
              /\ last_call = NoCall => effect_enables[i] = 1

\* What the code does keep: the toggle follows the descriptor's 'checkbox'
\* setting (offered when there is none), and the special Setup module has none.
ToggleFollowsCheckbox ==
    /\ \A i \in 0 .. (Len(all_effects) - 1) :
          /\ i \in DOMAIN effect_enables <=> OffersToggle(all_effects[i + 1])
          /\ (i \in DOMAIN effect_enables /\ last_call = NoCall) => effect_enables[i] = 1
    /\ (Len(all_effects) - 1) \notin DOMAIN effect_enables

\* C17: the selection is always None or an index of the catalog; a select with
\* an index outside the catalog (negative or >= its length) raises IndexError
\* and leaves the selection as it was; a select with an index of the catalog
\* changes no enable flag and not the bypass flag.
C17_SelectionInBounds ==
    /\ [](current_effect = <<>> \/
            (0 <= current_effect[1] /\ current_effect[1] < Len(all_effects)))
    /\ [][last_call'.op = "_select_effect" =>
            LET effect_idx == last_call'.args[1] IN
            /\ (effect_idx < 0 \/ effect_idx >= Len(all_effects)) =>
                  /\ raised' = "IndexError"
                  /\ current_effect' = current_effect
            /\ (0 <= effect_idx /\ effect_idx < Len(all_effects)) =>
                  /\ raised' = "None"
                  /\ current_effect' = <<effect_idx>>
                  /\ UNCHANGED <<effect_enables, bypass_enabled>>]_vars

\* What the code does keep: no select changes an enable flag or the bypass
\* flag, and a select with an index of the catalog stores it and returns.
SelectLeavesFlags ==
    [][last_call'.op = "_select_effect" =>
          /\ UNCHANGED <<effect_enables, bypass_enabled>>
          /\ (0 <= last_call'.args[1] /\ last_call'.args[1] < Len(all_effects)) =>
                raised' = "None" /\ current_effect' = <<last_call'.args[1]>>]_vars

----------------------------------------------------------------------------
(* Properties of knob construction and of the change notifications *)

\* C18: MetallicKnob(min_value, max_value) with min >= max raises at
\* construction and builds no knob; with min < max it builds a knob whose
\* value lies in [min, max].
C18_ConstructionChecksRange ==
    last_call.op = "MetallicKnob.__init__" =>
        /\ last_call.args[1] >= last_call.args[2] =>
              raised # "None" /\ ~knob.built
        /\ last_call.args[1] < last_call.args[2] =>
              /\ raised = "None" /\ knob.built
              /\ knob.min_value <= knob.value /\ knob.value <= knob.max_value

\* What the code does keep: construction raises exactly when min = max (the
\* division of _value_to_angle), and a knob that is built starts at min_value.
ConstructionRaisesOnEqualEnds ==
    last_call.op = "MetallicKnob.__init__" =>
        /\ raised = (IF last_call.args[1] = last_call.args[2]
                     THEN "ZeroDivisionError" ELSE "None")
        /\ knob.built <=> raised = "None"
        /\ knob.built => knob.value = knob.min_value

\* C19: while a change callback is set, every pointer move that adjusts the
\* value (one that leaves it clamped and unchanged too) makes one notification
\* on the live channel, and a release makes exactly one on the committed
\* channel, which is not the live one, and leaves the value as it was.
C19_LiveAndCommittedChannels ==
    [][/\ (last_call'.op = "_on_drag" /\ knob.last_y # <<>> /\ knob.change_callback) =>
            emitted' = <<LiveChannel>>
       /\ (last_call'.op = "_on_release" /\ knob.change_callback) =>
            /\ Len(emitted') = 1
            /\ emitted' = <<CommittedChannel>>
            /\ emitted' # <<LiveChannel>>
            /\ knob'.value = knob.value]_vars

\* What the code does keep: one notification per adjusting move and one per
\* release, the release leaving the value alone.
OneNotificationPerMoveAndRelease ==
    [][/\ (last_call'.op = "_on_drag" /\ knob.change_callback) =>
            Len(emitted') = (IF knob.last_y # <<>> THEN 1 ELSE 0)
       /\ (last_call'.op = "_on_release" /\ knob.change_callback) =>
            Len(emitted') = 1 /\ knob'.value = knob.value]_vars

----------------------------------------------------------------------------
(* Progress of the connection lifecycle *)

\* C20: while the window exists, a session that is Connecting has a discovery
\* step scheduled, and (the event loop running what is scheduled) that step
\* runs and leaves the session Connected or in DemoMode, whatever discovery
\* does; the session never stays Connecting for ever unless the window is closed.
C20_ConnectingEnds ==
    /\ []((ConnState = "Connecting" /\ window_exists) => after_queue > 0)
    /\ (ConnState = "Connecting") ~>
          (ConnState \in {"Connected", "DemoMode"} \/ ~window_exists)

\* C20 witness: the device lookup raised and the step has left the session in
\* DemoMode, no step remaining scheduled.
C20_Witness ==
    /\ last_call.op = "_attempt_connection"
    /\ last_call.args[1] = "raises"
    /\ ConnState = "DemoMode"
    /\ after_queue = 0
    /\ counts.ran = counts.scheduled

\* C21: a discovery step is scheduled only while the session is Connecting and
\* the window exists, so every run of _attempt_connection starts in
\* Connecting; once the window is closed the session is Disconnected and stays
\* so, and no step moves a Disconnected session to Connected or DemoMode.
C21_DiscoveryOnlyWhileConnecting ==
    /\ [](after_queue > 0 => (ConnState = "Connecting" /\ window_exists))
    /\ [](~window_exists => (ConnState = "Disconnected" /\ after_queue = 0))
    /\ [][counts'.ran # counts.ran =>
            /\ last_call'.op = "_attempt_connection"
            /\ ConnState = "Connecting"]_vars
    /\ [][ConnState = "Disconnected" => ConnState' \notin {"Connected", "DemoMode"}]_vars

\* C21 witness: after a first discovery had completed and the session was
\* disconnected, the window was closed while a second discovery was pending.
C21_Witness ==
    /\ last_call.op = "_on_close"
    /\ counts.scheduled = 2
    /\ counts.ran = 1
    /\ after_queue = 0
    /\ ConnState = "Disconnected"

----------------------------------------------------------------------------
(* The master knobs through a save and a recall *)

\* A step that recalls the key which the step before it saved.
RecallRightAfterSave ==
    /\ last_call.op = "_on_update_preset"
    /\ last_call'.op = "_on_preset_changed"
    /\ bank_var' = bank_var /\ num_var' = num_var

\* int(value) of a knob, as a knob value
Truncated(k) == HalvesPerUnit * IntOf(k.value)

\* Whether the step leaves every master knob at the truncation of the value it
\* had, a value that a further save and recall would keep, within its range.
KnobsTruncatedByStep ==
    \A l \in labels :
        /\ perm_knobs'[l].value = Truncated(perm_knobs[l])
        /\ Truncated(perm_knobs'[l]) = perm_knobs'[l].value
        /\ (perm_knobs[l].value = Truncated(perm_knobs[l]) =>
               perm_knobs'[l].value = perm_knobs[l].value)
        /\ perm_knobs'[l].min_value <= perm_knobs'[l].value
        /\ perm_knobs'[l].value <= perm_knobs'[l].max_value

\* C22: a save under a key followed at once by a recall of that key sets each
\* master knob to the integer truncation of the value it had (a drag moves in
\* halves, so that value can be fractional); the values so reached are whole,
\* so a second save and recall leaves them as they are, and they lie within
\* the knobs' ranges.
C22_RoundTripTruncates ==
    [][RecallRightAfterSave => KnobsTruncatedByStep]_vars

\* The same on the runs whose store is a keyed record.
RoundTripTruncatesOnStores ==
    [][(RecallRightAfterSave /\ presets.type = "dict") =>
          /\ raised' = "None"
          /\ KnobsTruncatedByStep]_vars

====
